---- MODULE Spec2Model ----
(***************************************************************************)
(* signit: sign a text message with an Ed25519 private key, verify the     *)
(* signed JSON envelope against one or more public keys.                   *)
(* Model of src/src/main.rs, one process invocation per behaviour.         *)
(***************************************************************************)
EXTENDS Integers, Sequences, FiniteSets, TLC

(***************************************************************************)
(* Text.  A String is a sequence of characters; a character is a one-      *)
(* character TLA+ string, except the non-ASCII character U+00E9, written   *)
(* "U+E9".  Bytes are the numbers 0..255.                                  *)
(***************************************************************************)
None == [tag |-> "None"]

Some(x) == [tag |-> "Some", val |-> x]

IsSome(o) == o.tag = "Some"

Ok(x) == [tag |-> "Ok", val |-> x]

Err(e) == [tag |-> "Err", err |-> e]

IsOk(r) == r.tag = "Ok"

Range(s) == {s[i] : i \in 1..Len(s)}

\* The printable ASCII characters in code order, 32 (space) first; the grave
\* accent (96) is written "U+60".
AsciiPrintable ==
  << " ", "!", "\"", "#", "$", "%", "&", "'", "(", ")", "*", "+", ",", "-", ".", "/",
     "0", "1", "2", "3", "4", "5", "6", "7", "8", "9", ":", ";", "<", "=", ">", "?",
     "@", "A", "B", "C", "D", "E", "F", "G", "H", "I", "J", "K", "L", "M", "N", "O",
     "P", "Q", "R", "S", "T", "U", "V", "W", "X", "Y", "Z", "[", "\\", "]", "^", "_",
     "U+60", "a", "b", "c", "d", "e", "f", "g", "h", "i", "j", "k", "l", "m", "n", "o",
     "p", "q", "r", "s", "t", "u", "v", "w", "x", "y", "z", "{", "|", "}", "~" >>

AsciiIndex == [c \in Range(AsciiPrintable) |-> CHOOSE i \in 1..Len(AsciiPrintable) : AsciiPrintable[i] = c]

\* UTF-8 encoding of one character.
CharBytes(c) ==
  CASE c = "\n" -> <<10>>
    [] c = "\r" -> <<13>>
    [] c = "\t" -> <<9>>
    [] c = "U+E9" -> <<195, 169>>
    [] OTHER -> <<31 + AsciiIndex[c]>>

\* The first position of s at or after i whose character is in the set cs
\* (member = TRUE) or outside it (member = FALSE); Len(s) + 1 if there is none.
FirstPos(s, i, cs, member) ==
  LET hit == {k \in i..Len(s) : (s[k] \in cs) = member}
  IN  IF hit = {} THEN Len(s) + 1 ELSE CHOOSE k \in hit : \A j \in hit : k <= j

RECURSIVE FlatMap(_, _)
\* The concatenation of f(c) over the characters c of s, in order.
FlatMap(f(_), s) ==
  IF s = <<>> THEN <<>>
  ELSE IF Len(s) = 1 THEN f(s[1])
  ELSE LET h == Len(s) \div 2
       IN  FlatMap(f, SubSeq(s, 1, h)) \o FlatMap(f, SubSeq(s, h + 1, Len(s)))

\* str::as_bytes: the UTF-8 bytes of a String.
as_bytes(s) == FlatMap(CharBytes, s)

(***************************************************************************)
(* base64, standard alphabet, padded.                                      *)
(***************************************************************************)
B64Alphabet ==
  << "A", "B", "C", "D", "E", "F", "G", "H", "I", "J", "K", "L", "M", "N", "O", "P",
     "Q", "R", "S", "T", "U", "V", "W", "X", "Y", "Z", "a", "b", "c", "d", "e", "f",
     "g", "h", "i", "j", "k", "l", "m", "n", "o", "p", "q", "r", "s", "t", "u", "v",
     "w", "x", "y", "z", "0", "1", "2", "3", "4", "5", "6", "7", "8", "9", "+", "/" >>

B64Index == [c \in Range(B64Alphabet) |-> (CHOOSE i \in 1..Len(B64Alphabet) : B64Alphabet[i] = c) - 1]

B64Char(n) == B64Alphabet[n + 1]

RECURSIVE encode(_)
\* base64::encode: three bytes become four characters, the tail is padded.
encode(b) ==
  IF Len(b) = 0 THEN <<>>
  ELSE IF Len(b) = 1 THEN
    << B64Char(b[1] \div 4), B64Char((b[1] % 4) * 16), "=", "=" >>
  ELSE IF Len(b) = 2 THEN
    << B64Char(b[1] \div 4), B64Char((b[1] % 4) * 16 + b[2] \div 16),
       B64Char((b[2] % 16) * 4), "=" >>
  ELSE
    << B64Char(b[1] \div 4), B64Char((b[1] % 4) * 16 + b[2] \div 16),
       B64Char((b[2] % 16) * 4 + b[3] \div 64), B64Char(b[3] % 64) >>
    \o encode(SubSeq(b, 4, Len(b)))

\* The input without its trailing padding characters (at most two).
StripPadding(s) ==
  IF Len(s) >= 2 /\ s[Len(s)] = "=" /\ s[Len(s) - 1] = "=" THEN SubSeq(s, 1, Len(s) - 2)
  ELSE IF Len(s) >= 1 /\ s[Len(s)] = "=" THEN SubSeq(s, 1, Len(s) - 1)
  ELSE s

RECURSIVE DecodeSextets(_)
\* The bytes of a sequence of six-bit values; the caller has checked the length
\* and that the bits left over are zero.
DecodeSextets(v) ==
  IF Len(v) <= 1 THEN <<>>
  ELSE IF Len(v) = 2 THEN << v[1] * 4 + v[2] \div 16 >>
  ELSE IF Len(v) = 3 THEN << v[1] * 4 + v[2] \div 16, (v[2] % 16) * 16 + v[3] \div 4 >>
  ELSE << v[1] * 4 + v[2] \div 16, (v[2] % 16) * 16 + v[3] \div 4, (v[3] % 4) * 64 + v[4] >>
       \o DecodeSextets(SubSeq(v, 5, Len(v)))

\* base64::decode: Err on a character outside the alphabet, on an impossible
\* length, on padding that does not complete a group of four, or on non-zero
\* trailing bits; Ok(bytes) otherwise.
decode(s) ==
  LET t == StripPadding(s)
      padded == Len(t) # Len(s)
      v == [i \in 1..Len(t) |-> B64Index[t[i]]]
      r == Len(t) % 4
  IN  IF \E i \in 1..Len(t) : t[i] \notin Range(B64Alphabet) THEN Err("InvalidByte")
      ELSE IF r = 1 \/ (padded /\ Len(s) % 4 # 0) THEN Err("InvalidLength")
      ELSE IF r = 2 /\ v[Len(t)] % 16 # 0 THEN Err("InvalidLastSymbol")
      ELSE IF r = 3 /\ v[Len(t)] % 4 # 0 THEN Err("InvalidLastSymbol")
      ELSE Ok(DecodeSextets(v))

(***************************************************************************)
(* The envelope and its JSON form (serde derive on SignIt, serde_json).     *)
(***************************************************************************)
\* struct SignIt: message and signature are Strings, github_user an Option.
SignIt(m, s, g) == [message |-> m, signature |-> s, github_user |-> g]

KeyMessage == <<"m", "e", "s", "s", "a", "g", "e">>

KeySignature == <<"s", "i", "g", "n", "a", "t", "u", "r", "e">>

KeyGithubUser == <<"g", "i", "t", "h", "u", "b", "_", "u", "s", "e", "r">>

\* serde_json's escape of one character of a string.
EscapeChar(c) ==
  CASE c = "\"" -> <<"\\", "\"">>
    [] c = "\\" -> <<"\\", "\\">>
    [] c = "\n" -> <<"\\", "n">>
    [] c = "\r" -> <<"\\", "r">>
    [] c = "\t" -> <<"\\", "t">>
    [] OTHER -> <<c>>

\* A JSON string literal.
JsonStr(s) == <<"\"">> \o FlatMap(EscapeChar, s) \o <<"\"">>

\* SerFields without skip_serializing_if: an absent github_user is written as
\* an empty string.
SerFields_no_skip(v) ==
  << <<KeyMessage, v.message>>, <<KeySignature, v.signature>>,
     <<KeyGithubUser, IF v.github_user = None THEN <<>> ELSE v.github_user.val>> >>

\* The fields serde serializes, in declaration order: github_user is skipped
\* when it is None (skip_serializing_if = "Option::is_none").
SerFields(v) ==
  << <<KeyMessage, v.message>>, <<KeySignature, v.signature>> >>
  \o (IF v.github_user = None THEN <<>> ELSE << <<KeyGithubUser, v.github_user.val>> >>)

RECURSIVE JoinCompact(_)
JoinCompact(fs) ==
  IF fs = <<>> THEN <<>>
  ELSE JsonStr(fs[1][1]) \o <<":">> \o JsonStr(fs[1][2])
       \o (IF Len(fs) > 1 THEN <<",">> ELSE <<>>) \o JoinCompact(Tail(fs))

RECURSIVE JoinPretty(_)
JoinPretty(fs) ==
  IF fs = <<>> THEN <<>>
  ELSE <<"\n", " ", " ">> \o JsonStr(fs[1][1]) \o <<":", " ">> \o JsonStr(fs[1][2])
       \o (IF Len(fs) > 1 THEN <<",">> ELSE <<"\n">>) \o JoinPretty(Tail(fs))

\* serde_json::to_string
to_string(v) == <<"{">> \o JoinCompact(SerFields(v)) \o <<"}">>

\* serde_json::to_string_pretty: two-space indent, one field per line.
to_string_pretty(v) == <<"{">> \o JoinPretty(SerFields(v)) \o <<"}">>

\* The first position at or after i that holds no JSON whitespace.
SkipWs(s, i) == FirstPos(s, i, {" ", "\n", "\t", "\r"}, FALSE)

Unescape(c) ==
  CASE c = "\"" -> Some("\"")
    [] c = "\\" -> Some("\\")
    [] c = "/" -> Some("/")
    [] c = "n" -> Some("\n")
    [] c = "r" -> Some("\r")
    [] c = "t" -> Some("\t")
    [] OTHER -> None

RECURSIVE ParseChars(_, _, _)
\* The rest of a string literal whose opening quote is before position i:
\* [ok, val, next]. A raw control character inside the literal is an error.
\* Characters up to the next quote, backslash or control character are taken
\* as they are.
ParseChars(s, i, acc) ==
  LET j == FirstPos(s, i, {"\"", "\\", "\n", "\r", "\t"}, TRUE)
      got == acc \o SubSeq(s, i, j - 1)
  IN  IF j > Len(s) THEN [ok |-> FALSE, err |-> "EofWhileParsingString"]
      ELSE IF s[j] = "\"" THEN [ok |-> TRUE, val |-> got, next |-> j + 1]
      ELSE IF s[j] = "\\" THEN
        IF j + 1 > Len(s) THEN [ok |-> FALSE, err |-> "EofWhileParsingString"]
        ELSE IF Unescape(s[j + 1]) = None THEN [ok |-> FALSE, err |-> "InvalidEscape"]
        ELSE ParseChars(s, j + 2, Append(got, Unescape(s[j + 1]).val))
      ELSE [ok |-> FALSE, err |-> "ControlCharacterWhileParsingString"]

ParseStr(s, i) ==
  IF i <= Len(s) /\ s[i] = "\"" THEN ParseChars(s, i + 1, <<>>)
  ELSE [ok |-> FALSE, err |-> "ExpectedString"]

\* A field value: a string literal or null (the values the fields of SignIt
\* accept): [ok, val, next] with val an Option.
ParseValue(s, i) ==
  IF i + 3 <= Len(s) /\ SubSeq(s, i, i + 3) = <<"n", "u", "l", "l">>
  THEN [ok |-> TRUE, val |-> None, next |-> i + 4]
  ELSE LET r == ParseStr(s, i)
       IN  IF r.ok THEN [ok |-> TRUE, val |-> Some(r.val), next |-> r.next] ELSE r

NoFields == [message |-> None, signature |-> None, github_user |-> None]

\* The derived visitor's treatment of one key and its value: a repeated field
\* and a null for a String field are errors, a null github_user is None (kept
\* as seen), an unknown key is ignored.
SetField(acc, key, val) ==
  IF key = KeyMessage \/ key = KeySignature THEN
    LET f == IF key = KeyMessage THEN "message" ELSE "signature"
    IN  IF acc[f] # None THEN [ok |-> FALSE, err |-> "duplicate field"]
        ELSE IF val = None THEN [ok |-> FALSE, err |-> "invalid type"]
        ELSE [ok |-> TRUE, acc |-> [acc EXCEPT ![f] = val]]
  ELSE IF key = KeyGithubUser THEN
    IF acc.github_user # None THEN [ok |-> FALSE, err |-> "duplicate field"]
    ELSE [ok |-> TRUE, acc |-> [acc EXCEPT !.github_user = Some(val)]]
  ELSE [ok |-> TRUE, acc |-> acc]

RECURSIVE ParseMembers(_, _, _, _)
\* The members of an object from position i (after the brace, or after a
\* member) to the closing brace: [ok, acc, next].
ParseMembers(s, i, acc, first) ==
  LET j == SkipWs(s, i)
  IN  IF j > Len(s) THEN [ok |-> FALSE, err |-> "EofWhileParsingObject"]
      ELSE IF s[j] = "}" THEN [ok |-> TRUE, acc |-> acc, next |-> j + 1]
      ELSE IF ~first /\ s[j] # "," THEN [ok |-> FALSE, err |-> "ExpectedObjectCommaOrEnd"]
      ELSE
        LET k == IF first THEN j ELSE SkipWs(s, j + 1)
            key == ParseStr(s, k)
        IN  IF ~key.ok THEN [ok |-> FALSE, err |-> "KeyMustBeAString"]
            ELSE
              LET c == SkipWs(s, key.next)
              IN  IF c > Len(s) \/ s[c] # ":" THEN [ok |-> FALSE, err |-> "ExpectedColon"]
                  ELSE
                    LET v == ParseValue(s, SkipWs(s, c + 1))
                    IN  IF ~v.ok THEN [ok |-> FALSE, err |-> v.err]
                        ELSE
                          LET f == SetField(acc, key.val, v.val)
                          IN  IF ~f.ok THEN [ok |-> FALSE, err |-> f.err]
                              ELSE ParseMembers(s, v.next, f.acc, FALSE)

\* serde_json::from_str::<SignIt>: Ok(SignIt) or Err. message and signature
\* are required; a missing github_user is None; only whitespace may follow
\* the object.
from_str(s) ==
  LET j == SkipWs(s, 1)
  IN  IF j > Len(s) THEN Err("EofWhileParsingValue")
      ELSE IF s[j] # "{" THEN Err("invalid type")
      ELSE
        LET r == ParseMembers(s, j + 1, NoFields, TRUE)
        IN  IF ~r.ok THEN Err(r.err)
            ELSE IF r.acc.message = None \/ r.acc.signature = None THEN Err("missing field")
            ELSE IF SkipWs(s, r.next) <= Len(s) THEN Err("TrailingCharacters")
            ELSE Ok(SignIt(r.acc.message.val, r.acc.signature.val,
                           IF r.acc.github_user = None THEN None ELSE r.acc.github_user.val))

(***************************************************************************)
(* Keys and signatures (thrussh_keys).  Ed25519 itself is idealised: a     *)
(* signature is 64 bytes determined by the secret key and the signed       *)
(* bytes, and a public key accepts exactly the signatures its secret key   *)
(* makes over the same bytes.  Key number k has the public key of 32 bytes *)
(* k.  An RSA key stands for every key that is not Ed25519.                *)
(***************************************************************************)
NumKeys == 2

KeyIds == 1..NumKeys

Ed25519KeyPair(k) == [alg |-> "ed25519", id |-> k]

RsaKeyPair == [alg |-> "rsa", id |-> 0]

Ed25519Public(k) == [alg |-> "ed25519", key |-> [i \in 1..32 |-> k]]

RsaPublic == [alg |-> "rsa", key |-> <<1, 0, 1>>]

\* The signature of secret key k over the bytes m: 64 bytes.
Ed25519Sign(k, m) ==
  LET d == <<k, Len(m) % 256>> \o m
  IN  [i \in 1..64 |-> IF i <= Len(d) THEN d[i] ELSE 0]

\* KeyPair::sign_detached: the Signature variant follows the key's algorithm.
sign_detached(secret, m) ==
  IF secret.alg = "ed25519" THEN [variant |-> "Ed25519", bytes |-> Ed25519Sign(secret.id, m)]
  ELSE [variant |-> "RSA", bytes |-> m]

\* Whether the public key pk accepts the 64 bytes sig as a signature over m.
Ed25519Valid(pk, m, sig) == pk.alg = "ed25519" /\ sig = Ed25519Sign(pk.key[1], m)

\* PublicKey::verify_detached on a signature of the right length. (An RSA key
\* accepts no signature this program can make.)
verify_detached(pk, m, sig) == Ed25519Valid(pk, m, sig)

U32(n) == <<0, 0, 0, n>>

\* The SSH wire form of a public key: the algorithm name, then the key.
KeyBlob(pk) ==
  IF pk.alg = "ed25519"
  THEN U32(11) \o as_bytes(<<"s", "s", "h", "-", "e", "d", "2", "5", "5", "1", "9">>)
       \o U32(Len(pk.key)) \o pk.key
  ELSE U32(7) \o as_bytes(<<"s", "s", "h", "-", "r", "s", "a">>) \o U32(Len(pk.key)) \o pk.key

\* A length-prefixed string at position i of b: [ok, val, next].
ReadString(b, i) ==
  IF i + 3 > Len(b) \/ b[i] # 0 \/ b[i + 1] # 0 \/ b[i + 2] # 0 \/ i + 3 + b[i + 3] > Len(b)
  THEN [ok |-> FALSE]
  ELSE [ok |-> TRUE, val |-> SubSeq(b, i + 4, i + 3 + b[i + 3]), next |-> i + 4 + b[i + 3]]

\* thrussh_keys::parse_public_key: an Ed25519 key needs exactly 32 key bytes.
parse_public_key(b) ==
  LET a == ReadString(b, 1)
  IN  IF ~a.ok THEN Err("CouldNotReadKey")
      ELSE LET k == ReadString(b, a.next)
           IN  IF ~k.ok THEN Err("CouldNotReadKey")
               ELSE IF a.val = as_bytes(<<"s", "s", "h", "-", "e", "d", "2", "5", "5", "1", "9">>)
                 THEN IF Len(k.val) = 32 THEN Ok([alg |-> "ed25519", key |-> k.val])
                      ELSE Err("CouldNotReadKey")
               ELSE IF a.val = as_bytes(<<"s", "s", "h", "-", "r", "s", "a">>)
                 THEN Ok([alg |-> "rsa", key |-> k.val])
               ELSE Err("CouldNotReadKey")

\* thrussh_keys::parse_public_key_base64
parse_public_key_base64(tok) ==
  LET d == decode(tok)
  IN  IF IsOk(d) THEN parse_public_key(d.val) ELSE Err("Base64")

(***************************************************************************)
(* The published key list: one key per line, "ssh-ed25519 <base64> ...".   *)
(***************************************************************************)
Marker == <<"s", "s", "h", "-", "e", "d", "2", "5", "5", "1", "9">>

\* str::starts_with
starts_with(l, prefix) == Len(l) >= Len(prefix) /\ SubSeq(l, 1, Len(prefix)) = prefix

RECURSIVE SplitOn(_, _, _)
\* The pieces of s from position i on, between occurrences of the character c.
SplitOn(s, c, i) ==
  LET j == FirstPos(s, i, {c}, TRUE)
  IN  <<SubSeq(s, i, j - 1)>> \o (IF j > Len(s) THEN <<>> ELSE SplitOn(s, c, j + 1))

\* str::lines: split at "\n", no empty last line for a final "\n", and a
\* "\r" before the "\n" is not part of the line.
lines(body) ==
  LET raw == SplitOn(body, "\n", 1)
      kept == IF raw[Len(raw)] = <<>> THEN SubSeq(raw, 1, Len(raw) - 1) ELSE raw
      chomp(l) == IF l # <<>> /\ l[Len(l)] = "\r" THEN SubSeq(l, 1, Len(l) - 1) ELSE l
  IN  [i \in 1..Len(kept) |-> chomp(kept[i])]

RECURSIVE Tokens(_, _)
\* The maximal runs of non-whitespace characters of s from position i on.
Tokens(s, i) ==
  LET a == FirstPos(s, i, {" ", "\n", "\t", "\r"}, FALSE)
      b == FirstPos(s, a, {" ", "\n", "\t", "\r"}, TRUE)
  IN  IF a > Len(s) THEN <<>> ELSE <<SubSeq(s, a, b - 1)>> \o Tokens(s, b)

\* str::split_whitespace
split_whitespace(l) == Tokens(l, 1)

\* .skip(1).next(): the second token, if there is one.
SecondToken(l) ==
  LET t == split_whitespace(l) IN IF Len(t) >= 2 THEN Some(t[2]) ELSE None

RECURSIVE KeysOfLines_any_line(_)
\* KeysOfLines without the starts_with filter.
KeysOfLines_any_line(ls) ==
  IF ls = <<>> THEN <<>>
  ELSE LET t == SecondToken(Head(ls))
           k == parse_public_key_base64(t.val)
       IN  (IF IsSome(t) /\ IsOk(k) THEN <<k.val>> ELSE <<>>)
           \o KeysOfLines_any_line(Tail(ls))

RECURSIVE KeysOfLines(_)
\* The filter / filter_map chain of get_public_keys over the lines, in order.
KeysOfLines(ls) ==
  IF ls = <<>> THEN <<>>
  ELSE LET l == Head(ls)
           t == SecondToken(l)
           k == parse_public_key_base64(t.val)
       IN  (IF starts_with(l, Marker) /\ IsSome(t) /\ IsOk(k) THEN <<k.val>> ELSE <<>>)
           \o KeysOfLines(Tail(ls))

\* The keys get_public_keys takes from a fetched body.
ParseBody(body) == KeysOfLines(lines(body))

(***************************************************************************)
(* One invocation of the program.                                          *)
(*   opt      the parsed command line (enum Commands)                      *)
(*   env      what the outside world answers: the home directory, the      *)
(*            results of reading the input file and standard input, of     *)
(*            loading the key file, of creating and writing the output     *)
(*   pc       the statement of main that runs next                         *)
(*   secret, message, sig, out, outstr, msg, guser, keys                   *)
(*            the locals of main of the same names (message is also the    *)
(*            raw text get_sig_message parses)                             *)
(*   published, body                                                       *)
(*            the key list the remote holds for the user and the text it   *)
(*            served                                                       *)
(*   requests the URLs requested so far                                    *)
(*   stdout, stderr, file, exitCode                                        *)
(*            what the process printed, the output file, the exit status   *)
(*   steps    the statements of main run so far, in order                  *)
(***************************************************************************)
VARIABLES opt, env, pc, secret, message, sig, out, outstr, msg, guser, keys,
          published, body, requests, stdout, stderr, file, exitCode, steps

vars == <<opt, env, pc, secret, message, sig, out, outstr, msg, guser, keys,
          published, body, requests, stdout, stderr, file, exitCode, steps>>

\* A local that has not been assigned yet; an assigned one is Some(value).
Unset == [tag |-> "Unset"]

(***************************************************************************)
(* The inputs of the model.                                                *)
(***************************************************************************)
\* Messages: empty, plain, and one with a quote, a newline, a backslash and
\* a non-ASCII character.
Messages == {<<>>, <<"h", "i">>, <<"a", "\"", "\n", "\\", "U+E9">>}

UserName == <<"u">>

NotBase64 == <<"n", "o", "t", "-", "b", "a", "s", "e", "6", "4", "!", "!">>

\* Signature fields for an envelope with message m: the signature of each
\* key, a signature over other bytes, valid base64 of 63 and of 65 bytes, and
\* a string that is not base64.
SigStrings(m) ==
  {encode(Ed25519Sign(k, as_bytes(m))) : k \in KeyIds}
  \cup {encode(Ed25519Sign(1, as_bytes(m) \o <<33>>)),
        encode(SubSeq(Ed25519Sign(1, as_bytes(m)), 1, 63)),
        encode(Ed25519Sign(1, as_bytes(m)) \o <<0>>),
        NotBase64}

Envelopes ==
  UNION {{SignIt(m, s, g) : s \in SigStrings(m), g \in {None, Some(UserName)}} : m \in Messages}

\* Texts given to verify: the envelopes a signer emits, in both forms, and
\* texts that are no envelope.
VerifyTexts ==
  {to_string(e) : e \in Envelopes}
  \cup {to_string_pretty(e) \o <<"\n">> : e \in Envelopes}
  \cup {<<>>, <<"h", "i">>,
        <<"{">> \o JsonStr(KeySignature) \o <<":">> \o JsonStr(NotBase64) \o <<"}">>}

InPath == <<"i", "n">>

KeyPath == <<"k", "e", "y">>

OutPath == <<"o", "u", "t">>

HomeDir == <<"/", "h", "o", "m", "e">>

\* The ways a text reaches get_message: -m (with or without -i), -i alone
\* (the file readable or not), neither (standard input readable or not).
InputCases(texts) ==
  {[message |-> Some(t), input |-> i, read_to_string |-> Err("io"), stdin |-> Err("io")] :
     t \in texts, i \in {None, Some(InPath)}}
  \cup {[message |-> None, input |-> Some(InPath), read_to_string |-> r, stdin |-> Err("io")] :
     r \in {Err("io")} \cup {Ok(t) : t \in texts}}
  \cup {[message |-> None, input |-> None, read_to_string |-> Err("io"), stdin |-> r] :
     r \in {Err("io")} \cup {Ok(t) : t \in texts}}

\* -k and what loading the key file gives; without -k, the home directory.
SecretCases ==
  {[private_key |-> Some(KeyPath), home |-> None, load_secret_key |-> r] :
     r \in {Err("io"), Ok(RsaKeyPair)} \cup {Ok(Ed25519KeyPair(k)) : k \in KeyIds}}
  \cup {[private_key |-> None, home |-> None, load_secret_key |-> Err("io")]}
  \cup {[private_key |-> None, home |-> Some(HomeDir), load_secret_key |-> r] :
     r \in {Err("io"), Ok(RsaKeyPair)} \cup {Ok(Ed25519KeyPair(k)) : k \in KeyIds}}

PublicCases ==
  {[public_key |-> None, load_public_key |-> Err("io")]}
  \cup {[public_key |-> Some(KeyPath), load_public_key |-> r] :
     r \in {Err("io"), Ok(RsaPublic)} \cup {Ok(Ed25519Public(k)) : k \in KeyIds}}

OutputCases ==
  {[output |-> None, create |-> Err("io"), write_all |-> Err("io")],
   [output |-> Some(OutPath), create |-> Err("io"), write_all |-> Err("io")],
   [output |-> Some(OutPath), create |-> Ok(<<>>), write_all |-> Err("io")],
   [output |-> Some(OutPath), create |-> Ok(<<>>), write_all |-> Ok(<<>>)]}

NoEnv ==
  [home |-> None, read_to_string |-> Err("io"), stdin |-> Err("io"),
   load_secret_key |-> Err("io"), load_public_key |-> Err("io"),
   create |-> Err("io"), write_all |-> Err("io")]

SignStarts ==
  {[opt |-> [cmd |-> "sign", input |-> i.input, output |-> o.output, message |-> i.message,
             private_key |-> k.private_key, github |-> g, pretty |-> p],
    env |-> [NoEnv EXCEPT !.home = k.home, !.read_to_string = i.read_to_string,
                          !.stdin = i.stdin, !.load_secret_key = k.load_secret_key,
                          !.create = o.create, !.write_all = o.write_all]] :
     i \in InputCases(Messages), k \in SecretCases, o \in OutputCases,
     g \in {None, Some(<<>>), Some(UserName)}, p \in BOOLEAN}

VerifyStarts ==
  {[opt |-> [cmd |-> "verify", input |-> i.input, message |-> i.message,
             public_key |-> k.public_key, github |-> g],
    env |-> [NoEnv EXCEPT !.read_to_string = i.read_to_string, !.stdin = i.stdin,
                          !.load_public_key = k.load_public_key]] :
     i \in InputCases(VerifyTexts), k \in PublicCases, g \in BOOLEAN}

Locals0 ==
  /\ secret = Unset /\ message = Unset /\ sig = Unset /\ out = Unset /\ outstr = Unset
  /\ msg = Unset /\ guser = Unset /\ keys = Unset
  /\ published = Unset /\ body = Unset

Outputs0 ==
  /\ requests = <<>> /\ stdout = <<>> /\ stderr = <<>> /\ file = None
  /\ exitCode = None /\ steps = <<>>

Init ==
  /\ \E c \in SignStarts \cup VerifyStarts :
       /\ opt = c.opt
       /\ env = c.env
       /\ pc = IF c.opt.cmd = "sign" THEN "get_private_key" ELSE "get_sig_message"
  /\ Locals0
  /\ Outputs0

(***************************************************************************)
(* What the remote may hold for a user: a list of lines, each of one of    *)
(* these shapes, served as a text with or without a final newline.         *)
(***************************************************************************)
Space == <<" ">>

SshRsa == <<"s", "s", "h", "-", "r", "s", "a">>

PublishedLines ==
  {[kind |-> "blank", key |-> 0], [kind |-> "rsa", key |-> 0],
   [kind |-> "marker_only", key |-> 0], [kind |-> "bad_token", key |-> 0],
   [kind |-> "key_crlf", key |-> 1], [kind |-> "indented", key |-> 1]}
  \cup {[kind |-> t, key |-> k] : t \in {"key", "key_comment"}, k \in KeyIds}

\* The text of one published line.
RenderLine(d) ==
  LET k == encode(KeyBlob(Ed25519Public(d.key)))
  IN  CASE d.kind = "key" -> Marker \o Space \o k
        [] d.kind = "key_comment" -> Marker \o Space \o k \o Space \o <<"m", "e", "@", "p", "c">>
        [] d.kind = "key_crlf" -> Marker \o Space \o k \o <<"\r">>
        [] d.kind = "rsa" -> SshRsa \o Space \o encode(KeyBlob(RsaPublic))
        [] d.kind = "blank" -> <<>>
        [] d.kind = "marker_only" -> Marker
        [] d.kind = "bad_token" -> Marker \o Space \o NotBase64
        [] d.kind = "indented" -> Space \o Marker \o Space \o k

RECURSIVE RenderBody(_, _)
\* The lines joined by "\n"; final says whether the last line is terminated.
RenderBody(ds, final) ==
  IF ds = <<>> THEN <<>>
  ELSE RenderLine(Head(ds))
       \o (IF Len(ds) > 1 \/ final THEN <<"\n">> ELSE <<>>)
       \o RenderBody(Tail(ds), final)

\* The lists the remote holds in the runs of the program: none, one key,
\* another key before it, no Ed25519 key at all, and the mixed list.
PublishedLists ==
  {<<>>,
   <<[kind |-> "key", key |-> 1]>>,
   <<[kind |-> "key_comment", key |-> 2], [kind |-> "key", key |-> 1]>>,
   <<[kind |-> "rsa", key |-> 0], [kind |-> "blank", key |-> 0]>>,
   <<[kind |-> "key_comment", key |-> 1], [kind |-> "rsa", key |-> 0],
     [kind |-> "blank", key |-> 0]>>}

\* format!("https://github.com/{}.keys", user)
KeysUrl(user) ==
  <<"h", "t", "t", "p", "s", ":", "/", "/", "g", "i", "t", "h", "u", "b", ".", "c", "o", "m", "/">>
  \o user \o <<".", "k", "e", "y", "s">>

(***************************************************************************)
(* The statements of main.                                                 *)
(***************************************************************************)
\* std::process::exit(code): the status the parent observes is one byte.
ExitStatus(code) == code % 256

Step(op, arg) == [op |-> op, arg |-> arg]

\* eject, were it to print the reason and return to its caller.
Eject_returns(reason) ==
  /\ stderr' = Append(stderr, reason)
  /\ exitCode' = exitCode
  /\ pc' = pc

\* eject: the reason goes to standard error and the process exits with -1.
Eject(reason) ==
  /\ stderr' = Append(stderr, reason)
  /\ exitCode' = Some(ExitStatus(-1))
  /\ pc' = "exit"

\* main returns: exit status 0.
Return ==
  /\ exitCode' = Some(ExitStatus(0))
  /\ pc' = "exit"

\* get_message: -m first, then the -i file, then standard input. Ok(text),
\* or Err(reason) where the code ejects.
get_message ==
  IF IsSome(opt.message) THEN Ok(opt.message.val)
  ELSE IF IsSome(opt.input) THEN
    (IF IsOk(env.read_to_string) THEN env.read_to_string ELSE Err("Failed to read file"))
  ELSE IF IsOk(env.stdin) THEN env.stdin
  ELSE Err("Failed to read stdin")

\* The source get_message read, for the record of steps.
MessageSource ==
  IF IsSome(opt.message) THEN "-m" ELSE IF IsSome(opt.input) THEN "-i" ELSE "stdin"

\* The private key path: -k, or <home>/.ssh/id_ed25519.
PrivateKeyPath ==
  IF IsSome(opt.private_key) THEN opt.private_key
  ELSE IF IsSome(env.home)
    THEN Some(env.home.val \o <<"/", ".", "s", "s", "h", "/", "i", "d", "_", "e", "d", "2", "5", "5", "1", "9">>)
  ELSE None

\* let secret = get_private_key(private_key);
GetPrivateKey ==
  /\ pc = "get_private_key"
  /\ steps' = Append(steps, Step("get_private_key", PrivateKeyPath))
  /\ IF PrivateKeyPath = None
       THEN /\ Eject("No home directory detected, please specify private key using -k!")
            /\ UNCHANGED secret
     ELSE IF ~IsOk(env.load_secret_key)
       THEN /\ Eject("Unable to detect private key, please specify using -k!")
            /\ UNCHANGED secret
     ELSE /\ secret' = Some(env.load_secret_key.val)
          /\ pc' = "get_message"
          /\ UNCHANGED <<stderr, exitCode>>
  /\ UNCHANGED <<opt, env, message, sig, out, outstr, msg, guser, keys, published, body,
                 requests, stdout, file>>

\* let message = get_message(message, &input);
GetMessage ==
  /\ pc = "get_message"
  /\ steps' = Append(steps, Step("get_message", MessageSource))
  /\ IF IsOk(get_message)
       THEN /\ message' = Some(get_message.val)
            /\ pc' = "sign_detached"
            /\ UNCHANGED <<stderr, exitCode>>
       ELSE /\ Eject(get_message.err)
            /\ UNCHANGED message
  /\ UNCHANGED <<opt, env, secret, sig, out, outstr, msg, guser, keys, published, body,
                 requests, stdout, file>>

\* let sig = secret.sign_detached(message.as_bytes()).unwrap(); then the match
\* on the Signature variant.
SignDetached ==
  /\ pc = "sign_detached"
  /\ steps' = Append(steps, Step("sign_detached", secret.val.alg))
  /\ LET s == sign_detached(secret.val, as_bytes(message.val))
     IN  IF s.variant = "Ed25519"
           THEN /\ sig' = Some(s.bytes)
                /\ pc' = "serialize"
                /\ UNCHANGED <<stderr, exitCode>>
           ELSE /\ Eject("Specified or detected key was not an Ed25519 key!")
                /\ UNCHANGED sig
  /\ UNCHANGED <<opt, env, secret, message, out, outstr, msg, guser, keys, published, body,
                 requests, stdout, file>>

\* let out = SignIt { .. }; let outstr = to_string or to_string_pretty (&out)
Serialize ==
  /\ pc = "serialize"
  /\ steps' = Append(steps, Step("serialize", opt.pretty))
  /\ out' = Some(SignIt(message.val, encode(sig.val), opt.github))
  /\ outstr' = Some(IF opt.pretty THEN to_string_pretty(out'.val) ELSE to_string(out'.val))
  /\ pc' = "write_or_print"
  /\ UNCHANGED <<opt, env, secret, message, sig, msg, guser, keys, published, body,
                 requests, stdout, stderr, file, exitCode>>

\* write_or_print(output, outstr); then main returns. A file that was created
\* and could not be written is left with whatever was written: nothing here.
WriteOrPrint ==
  /\ pc = "write_or_print"
  /\ steps' = Append(steps, Step("write_or_print", opt.output))
  /\ IF IsSome(opt.output)
       THEN IF ~IsOk(env.create)
              THEN /\ Eject("Failed to open file")
                   /\ UNCHANGED <<file, stdout>>
            ELSE IF ~IsOk(env.write_all)
              THEN /\ Eject("Failed to write to file")
                   /\ file' = Some(<<>>)
                   /\ UNCHANGED stdout
            ELSE /\ file' = Some(outstr.val)
                 /\ Return
                 /\ UNCHANGED <<stdout, stderr>>
       ELSE /\ stdout' = Append(stdout, outstr.val \o <<"\n">>)
            /\ Return
            /\ UNCHANGED <<file, stderr>>
  /\ UNCHANGED <<opt, env, secret, message, sig, out, outstr, msg, guser, keys, published,
                 body, requests>>

\* let msg = get_sig_message(message, &input);
GetSigMessage ==
  /\ pc = "get_sig_message"
  /\ steps' = Append(steps, Step("get_sig_message", MessageSource))
  /\ IF ~IsOk(get_message)
       THEN /\ Eject(get_message.err)
            /\ UNCHANGED <<message, msg>>
     ELSE IF ~IsOk(from_str(get_message.val))
       THEN /\ Eject("Failed to parse message")
            /\ message' = Some(get_message.val)
            /\ UNCHANGED msg
     ELSE /\ message' = Some(get_message.val)
          /\ msg' = Some(from_str(get_message.val).val)
          /\ pc' = "guser"
          /\ UNCHANGED <<stderr, exitCode>>
  /\ UNCHANGED <<opt, env, secret, sig, out, outstr, guser, keys, published, body,
                 requests, stdout, file>>

\* guser_match, were -g without a user in the envelope to fall through to
\* "no user" instead of ejecting.
guser_match_no_eject(github, github_user) ==
  IF github /\ IsSome(github_user) THEN Ok(github_user) ELSE Ok(None)

\* guser_match, were it to drop the user of the envelope.
guser_match_drops_user(github, github_user) ==
  IF github /\ ~IsSome(github_user) THEN Err("No github user in message!") ELSE Ok(None)

\* match (github, &msg.github_user): Ok(the user to look up, if any), or
\* Err(reason) where the code ejects.
guser_match(github, github_user) ==
  IF github /\ IsSome(github_user) THEN Ok(github_user)
  ELSE IF github THEN Err("No github user in message!")
  ELSE Ok(None)

\* let guser = match (github, &msg.github_user) { .. };
SelectGuser ==
  /\ pc = "guser"
  /\ steps' = Append(steps, Step("guser", opt.github))
  /\ LET g == guser_match(opt.github, msg.val.github_user)
     IN  IF IsOk(g)
           THEN /\ guser' = Some(g.val)
                /\ pc' = "get_public_keys"
                /\ UNCHANGED <<stderr, exitCode>>
           ELSE /\ Eject(g.err)
                /\ UNCHANGED guser
  /\ UNCHANGED <<opt, env, secret, message, sig, out, outstr, msg, keys, published, body,
                 requests, stdout, file>>

\* KeySource, were the user tested before the path.
KeySource_user_first(path, user) ==
  IF IsSome(user) THEN "remote" ELSE IF IsSome(path) THEN "file" ELSE "none"

\* The branch get_public_keys takes: the -k path first, else the keys
\* published for guser, else neither.
KeySource(path, user) ==
  IF IsSome(path) THEN "file" ELSE IF IsSome(user) THEN "remote" ELSE "none"

\* let keys = get_public_keys(public_key, guser);
GetPublicKeys ==
  /\ pc = "get_public_keys"
  /\ steps' = Append(steps, Step("get_public_keys", opt.public_key))
  /\ IF KeySource(opt.public_key, guser.val) = "file"
       THEN /\ IF IsOk(env.load_public_key)
                 THEN /\ keys' = Some(<<env.load_public_key.val>>)
                      /\ pc' = "decode"
                      /\ UNCHANGED <<stderr, exitCode>>
                 ELSE /\ Eject("Failed to load key")
                      /\ UNCHANGED keys
            /\ UNCHANGED <<published, body, requests>>
     ELSE IF KeySource(opt.public_key, guser.val) = "remote"
       THEN /\ requests' = Append(requests, KeysUrl(guser.val.val))
            /\ \E list \in PublishedLists, final \in BOOLEAN, r \in {"get", "text", "ok"} :
                 /\ published' = Some(list)
                 /\ IF r = "ok"
                      THEN /\ body' = Some(RenderBody(list, final))
                           /\ keys' = Some(ParseBody(body'.val))
                           /\ pc' = "decode"
                           /\ UNCHANGED <<stderr, exitCode>>
                      ELSE /\ Eject("Failed to get github keys!")
                           /\ UNCHANGED <<body, keys>>
     ELSE /\ keys' = Some(<<>>)
          /\ pc' = "decode"
          /\ UNCHANGED <<published, body, requests, stderr, exitCode>>
  /\ UNCHANGED <<opt, env, secret, message, sig, out, outstr, msg, guser, stdout, file>>

\* let sig = decode(&msg.signature).unwrap_or_else(..);
DecodeSignature ==
  /\ pc = "decode"
  /\ steps' = Append(steps, Step("decode", msg.val.signature))
  /\ IF IsOk(decode(msg.val.signature))
       THEN /\ sig' = Some(decode(msg.val.signature).val)
            /\ pc' = "verify"
            /\ UNCHANGED <<stderr, exitCode>>
       ELSE /\ Eject("Signature not proper base64!")
            /\ UNCHANGED sig
  /\ UNCHANGED <<opt, env, secret, message, out, outstr, msg, guser, keys, published, body,
                 requests, stdout, file>>

\* any, were it to try the first candidate only.
any_first_only(ks, m, s) ==
  IF ks = <<>> THEN FALSE ELSE verify_detached(Head(ks), m, s)

RECURSIVE any(_, _, _)
\* keys.iter().any(|k| k.verify_detached(m, sig)): the keys in order, stopping
\* at the first that accepts.
any(ks, m, s) ==
  IF ks = <<>> THEN FALSE
  ELSE IF verify_detached(Head(ks), m, s) THEN TRUE
  ELSE any(Tail(ks), m, s)

\* Report, were a failed check reported with the reason of a decode error.
Report_decode_reason(good) ==
  IF good
    THEN /\ stdout' = Append(stdout, <<"V", "e", "r", "i", "f", "i", "e", "d", "!", "\n">>)
         /\ exitCode' = Some(0)
         /\ pc' = "exit"
         /\ UNCHANGED stderr
    ELSE /\ stderr' = Append(stderr, "Signature not proper base64!")
         /\ exitCode' = Some(255)
         /\ pc' = "exit"
         /\ UNCHANGED stdout

\* The report of main on the outcome of the checks.
Report(good) ==
  IF good
    THEN /\ stdout' = Append(stdout, <<"V", "e", "r", "i", "f", "i", "e", "d", "!", "\n">>)
         /\ Return
         /\ UNCHANGED stderr
    ELSE /\ Eject("Verification failed!")
         /\ UNCHANGED stdout

\* let good = keys.iter().any(..); if !good { eject } else { println! }
\* thrussh_keys is handed the decoded bytes whatever their length. What it does
\* with a signature that is not 64 bytes is not decided in this repository: a
\* key that is tried rejects it, or the process aborts.
VerifyAny ==
  /\ pc = "verify"
  /\ steps' = Append(steps, Step("verify", Len(keys.val)))
  /\ IF Len(sig.val) = 64 \/ keys.val = <<>>
       THEN Report(any(keys.val, as_bytes(msg.val.message), sig.val))
       ELSE \/ Report(FALSE)
            \/ /\ stderr' = Append(stderr, "panicked")
               /\ exitCode' = Some(101)
               /\ pc' = "exit"
               /\ UNCHANGED stdout
  /\ UNCHANGED <<opt, env, secret, message, sig, out, outstr, msg, guser, keys, published,
                 body, requests, file>>

Next ==
  \/ GetPrivateKey
  \/ GetMessage
  \/ SignDetached
  \/ Serialize
  \/ WriteOrPrint
  \/ GetSigMessage
  \/ SelectGuser
  \/ GetPublicKeys
  \/ DecodeSignature
  \/ VerifyAny

Spec == Init /\ [][Next]_vars

(***************************************************************************)
(* The envelope codec on its own: every envelope over a small alphabet is  *)
(* serialized as Serialize does, handed on as write_or_print does (as is   *)
(* to a file, with a newline to standard output) and parsed as             *)
(* get_sig_message does.                                                   *)
(***************************************************************************)
MaxMsgLen == 2

MaxSigLen == 1

MaxIdLen == 1

\* The sequences over the alphabet a of length at most n.
Strings(a, n) == UNION {[1..k -> a] : k \in 0..n}

CodecEnvelopes ==
  {SignIt(m, s, g) :
     m \in Strings({"a", "\"", "\\", "\n", "U+E9"}, MaxMsgLen),
     s \in Strings({"A", "\""}, MaxSigLen),
     g \in {None} \cup {Some(u) : u \in Strings({"u", "\\"}, MaxIdLen)}}

CodecInit ==
  /\ out \in {Some(e) : e \in CodecEnvelopes}
  /\ opt \in {[cmd |-> "codec", pretty |-> p] : p \in BOOLEAN}
  /\ env = NoEnv
  /\ pc = "to_string"
  /\ secret = Unset /\ message = Unset /\ sig = Unset /\ outstr = Unset
  /\ msg = Unset /\ guser = Unset /\ keys = Unset
  /\ published = Unset /\ body = Unset
  /\ Outputs0

CodecEncode ==
  /\ pc = "to_string"
  /\ outstr' = Some(IF opt.pretty THEN to_string_pretty(out.val) ELSE to_string(out.val))
  /\ \E newline \in BOOLEAN :
       message' = Some(IF newline THEN outstr'.val \o <<"\n">> ELSE outstr'.val)
  /\ pc' = "from_str"
  /\ UNCHANGED <<opt, env, secret, sig, out, msg, guser, keys, published, body,
                 requests, stdout, stderr, file, exitCode, steps>>

CodecDecode ==
  /\ pc = "from_str"
  /\ IF IsOk(from_str(message.val))
       THEN /\ msg' = Some(from_str(message.val).val)
            /\ pc' = "decoded"
       ELSE /\ pc' = "rejected"
            /\ UNCHANGED msg
  /\ UNCHANGED <<opt, env, secret, message, sig, out, outstr, guser, keys, published,
                 body, requests, stdout, stderr, file, exitCode, steps>>

CodecNext ==
  \/ CodecEncode
  \/ CodecDecode

SpecCodec == CodecInit /\ [][CodecNext]_vars

(***************************************************************************)
(* The key list parser on its own: every list of at most MaxLines          *)
(* published lines, served with or without a final newline.                *)
(***************************************************************************)
MaxLines == 3

KeysInit ==
  /\ published \in {Some(l) : l \in Strings(PublishedLines, MaxLines)}
  /\ \E final \in BOOLEAN : body = Some(RenderBody(published.val, final))
  /\ opt = [cmd |-> "keys"]
  /\ env = NoEnv
  /\ pc = "lines"
  /\ secret = Unset /\ message = Unset /\ sig = Unset /\ out = Unset /\ outstr = Unset
  /\ msg = Unset /\ guser = Unset /\ keys = Unset
  /\ Outputs0

KeysParse ==
  /\ pc = "lines"
  /\ keys' = Some(ParseBody(body.val))
  /\ pc' = "parsed"
  /\ UNCHANGED <<opt, env, secret, message, sig, out, outstr, msg, guser, published,
                 body, requests, stdout, stderr, file, exitCode, steps>>

KeysNext == KeysParse

SpecKeys == KeysInit /\ [][KeysNext]_vars

(***************************************************************************)
(* Properties.                                                             *)
(***************************************************************************)
VerifiedLine == <<"V", "e", "r", "i", "f", "i", "e", "d", "!", "\n">>

\* The invocation ended in the success outcome of verify.
Verified == pc = "exit" /\ stdout = <<VerifiedLine>> /\ exitCode = Some(0)

\* Key number i of the candidates accepts the decoded signature over the
\* bytes of the envelope's message.
Validates(i) == Ed25519Valid(keys.val[i], as_bytes(msg.val.message), sig.val)

\* The statement of main that ran last.
LastOp == IF steps = <<>> THEN "" ELSE steps[Len(steps)].op

\* C1: a verify invocation whose signature field decoded from base64 ends in
\* the success outcome if and only if at least one candidate key validates the
\* decoded signature over the message bytes (so two keys of which one matches
\* succeed, keys that all fail do not, and no key at all never succeeds).
C1_FanOut ==
  (opt.cmd = "verify" /\ pc = "exit" /\ sig # Unset)
    => (Verified <=> \E i \in 1..Len(keys.val) : Validates(i))

\* C1 witness: verify succeeded with two candidates, the first of which
\* rejects the signature and the second accepts it.
C1_Witness ==
  /\ opt.cmd = "verify" /\ Verified /\ sig # Unset
  /\ Len(keys.val) = 2 /\ ~Validates(1) /\ Validates(2)

\* C2: a verify invocation with -g whose envelope carries no github_user ends
\* in the configuration error, before key resolution, and issues no request.
C2_NoIdentityNoFetch ==
  (opt.cmd = "verify" /\ opt.github /\ msg # Unset /\ msg.val.github_user = None)
    => /\ requests = <<>>
       /\ keys = Unset
       /\ pc \in {"guser", "exit"}
       /\ pc = "exit" => /\ stderr = <<"No github user in message!">>
                         /\ exitCode = Some(ExitStatus(-1))

\* C2 witness: such an invocation has ended.
C2_Witness ==
  /\ opt.cmd = "verify" /\ opt.github /\ msg # Unset /\ msg.val.github_user = None
  /\ pc = "exit" /\ LastOp = "guser"

C4_LengthIsFormatError ==
  (opt.cmd = "verify" /\ pc = "exit" /\ sig # Unset /\ Len(sig.val) # 64)
    => stderr = <<"Signature not proper base64!">>

C6_IdentityDrivesFetch ==
  /\ (opt.cmd = "verify" /\ opt.public_key = None /\ msg # Unset
        /\ IsSome(msg.val.github_user) /\ sig # Unset)
       => requests = <<KeysUrl(msg.val.github_user.val)>>
  /\ (opt.cmd = "verify" /\ msg # Unset /\ msg.val.github_user = None /\ sig # Unset)
       => IsSome(opt.public_key)

\* C6, amended: without -k and with -g, an envelope that names a user makes
\* verify request that user's keys, once, before the signature is decoded and
\* checked; and for an envelope that names no user a candidate key is checked
\* against the signature only when it was given with -k.
C6_RequestedIdentityDrivesFetch ==
  /\ (opt.cmd = "verify" /\ opt.github /\ opt.public_key = None /\ msg # Unset
        /\ IsSome(msg.val.github_user) /\ Len(steps) >= 3)
       => requests = <<KeysUrl(msg.val.github_user.val)>>
  /\ (opt.cmd = "verify" /\ sig # Unset) => Len(steps) >= 4
  /\ (opt.cmd = "verify" /\ msg # Unset /\ msg.val.github_user = None
        /\ keys # Unset /\ keys.val # <<>>)
       => IsSome(opt.public_key)

\* C6 witness: the keys of the envelope's user were requested and the
\* signature was then decoded.
C6_Witness ==
  /\ opt.cmd = "verify" /\ opt.github /\ opt.public_key = None
  /\ msg # Unset /\ IsSome(msg.val.github_user) /\ sig # Unset
  /\ requests = <<KeysUrl(msg.val.github_user.val)>>

RECURSIVE ExpectedKeys(_)
\* The Ed25519 keys a published list holds, in order: one for each line that
\* starts with the marker and carries a well-formed key as its second token.
ExpectedKeys(ds) ==
  IF ds = <<>> THEN <<>>
  ELSE (IF Head(ds).kind \in {"key", "key_comment", "key_crlf"}
          THEN <<Ed25519Public(Head(ds).key)>> ELSE <<>>)
       \o ExpectedKeys(Tail(ds))

\* C7: key resolution of verify returns no key only when a list was fetched
\* for a user and held no usable Ed25519 line; every other combination of -k,
\* -g and github_user gives at least one key or an error.
C7_EmptyOnlyFromRemote ==
  (opt.cmd = "verify" /\ keys = Some(<<>>))
    => /\ requests # <<>>
       /\ published # Unset /\ ExpectedKeys(published.val) = <<>>

\* C8: the candidate keys taken from a fetched body are exactly the keys of
\* its lines that begin with ssh-ed25519 and whose second token parses as a
\* key, in line order; every other line is skipped without error.
C8_RemoteParsing == pc = "parsed" => keys = Some(ExpectedKeys(published.val))

\* C8 witness: an ssh-ed25519 line with a comment, an ssh-rsa line and a blank
\* line gave exactly one key.
C8_Witness ==
  /\ pc = "parsed"
  /\ published = Some(<<[kind |-> "key_comment", key |-> 1], [kind |-> "rsa", key |-> 0],
                        [kind |-> "blank", key |-> 0]>>)
  /\ keys = Some(<<Ed25519Public(1)>>)

\* The text holds a member named github_user.
HasIdentityField(text) ==
  LET pat == JsonStr(KeyGithubUser) \o <<":">>
  IN  \E i \in 1..Len(text) :
        i + Len(pat) - 1 <= Len(text) /\ SubSeq(text, i, i + Len(pat) - 1) = pat

\* C9: decoding an encoded envelope gives back the same message, signature
\* and identity, in compact and in indented form, and the encoded form has an
\* identity field exactly when the identity is present (an empty identity is
\* present).
C9_RoundTrip ==
  /\ pc # "rejected"
  /\ pc = "decoded" => msg = out
  /\ outstr # Unset => (HasIdentityField(outstr.val) <=> out.val.github_user # None)

\* C9 witness: an indented envelope with an empty identity and a message of a
\* quote and a newline came back as it was.
C9_Witness ==
  /\ pc = "decoded" /\ opt.pretty /\ msg = out
  /\ out.val.github_user = Some(<<>>) /\ out.val.message = <<"\"", "\n">>

\* The statements of main, in the order main runs them.
MainOrder ==
  IF opt.cmd = "sign"
    THEN <<"get_private_key", "get_message", "sign_detached", "serialize", "write_or_print">>
    ELSE <<"get_sig_message", "guser", "get_public_keys", "decode", "verify">>

\* C10: the first failing step ends the invocation: the steps run are an
\* initial part of main's order, each once; a reported error is the last thing
\* that happens; at most one request is made; sign emits the envelope at most
\* once and only after the key load, the message read and the signing
\* succeeded; verify reports success only after every step succeeded.
C10_ErrorsAreTerminal ==
  /\ Len(steps) <= Len(MainOrder)
  /\ \A i \in 1..Len(steps) : steps[i].op = MainOrder[i]
  /\ Len(stderr) <= 1
  /\ stderr # <<>> => (pc = "exit" /\ exitCode # Some(0) /\ stdout = <<>>)
  /\ pc = "exit" => ~ENABLED Next
  /\ pc # "exit" => (stderr = <<>> /\ stdout = <<>> /\ file = None /\ exitCode = None)
  /\ Len(requests) <= 1
  /\ Len(stdout) + (IF file = None THEN 0 ELSE 1) <= 1
  /\ (opt.cmd = "sign" /\ (stdout # <<>> \/ file # None))
       => /\ Len(steps) = 5
          /\ secret # Unset /\ message # Unset /\ sig # Unset /\ outstr # Unset
          /\ stderr = <<>> => (stdout = <<outstr.val \o <<"\n">>>> \/ file = outstr)
  /\ (opt.cmd = "verify" /\ stdout # <<>>)
       => /\ Len(steps) = 5 /\ stderr = <<>>
          /\ msg # Unset /\ keys # Unset /\ sig # Unset

\* C10 witness: the one request failed and the invocation ended there.
C10_Witness ==
  /\ pc = "exit" /\ stderr = <<"Failed to get github keys!">>
  /\ Len(requests) = 1 /\ LastOp = "get_public_keys" /\ sig = Unset

====
